---- MODULE Spec2Model ----
(***************************************************************************)
(* Signal aggregation and scoring engine of the due-diligence scanner:     *)
(* mergeSignalsWithDefinitions, calculateCategoryScores,                   *)
(* calculatePenalties, the score composition of runScan, getCoverageLevel  *)
(* and getEffortEstimate, together with the collector fan-out of runScan   *)
(* and the job store of the scan route (POST, runScanAsync).               *)
(*                                                                         *)
(* Strings of the program are TLA+ strings.  An optional value (a field    *)
(* that may be undefined, the result of Map.get or Array.find) is a        *)
(* sequence of length at most one: None is undefined, Some(x) is x.        *)
(***************************************************************************)
EXTENDS Integers, Sequences, FiniteSets, TLC

VARIABLES
    pc,            \* position of runScan: "website", "fanout", "aggregate", "interpret", "done"
    outcome,       \* what each collector call yields when it settles (the environment's input)
    settled,       \* the fan-out collectors whose promise has settled
    companyName,   \* runScan's local companyName (also context.companyName)
    seenName,      \* the companyName each fan-out collector read from the context when called
    allSignals,    \* runScan's allSignals: the concatenated raw findings
    errors,        \* runScan's errors list: the names of the collectors that failed
    financialData, \* runScan's financialData, None for undefined
    result,        \* preliminaryResult (without ids and timestamps), None before aggregation
    returned,      \* the ScanResult runScan returns, None before it returns
    args,          \* arguments of a direct call of getEffortEstimate
    ret,           \* what that call returned, None before it returns
    scanJobs,      \* route.ts: the in-memory Map of scan jobs, a function on the ids it holds
    scanPc,        \* route.ts: the position of each job's runScanAsync, "unused" for an id not yet generated
    now,           \* route.ts: Date.now(), in milliseconds
    response,      \* route.ts: the last response POST returned, None before the first
    request        \* route.ts: Some(body) for the body of the last request POST handled, None before the first

\* the variables of the job store of route.ts
jobVars == <<scanJobs, scanPc, now, response, request>>

\* the variables of runScan and of a direct call of getEffortEstimate
scanVars == <<pc, outcome, settled, companyName, seenName, allSignals, errors, financialData,
              result, returned, args, ret>>

vars == <<pc, outcome, settled, companyName, seenName, allSignals, errors, financialData,
          result, returned, args, ret, scanJobs, scanPc, now, response, request>>

None == <<>>
Some(x) == <<x>>

-----------------------------------------------------------------------------
(* Bounds of the model *)

\* how many raw findings are appended after the baseline list of an input
MaxExtra == 2

-----------------------------------------------------------------------------
(* constants.ts *)

Def(id, name, category, points, source) ==
    [id |-> id, name |-> name, category |-> category, points |-> points, source |-> source]

SIGNAL_DEFINITIONS ==
    << Def("website_reachable", "Website Reachable", "identity", 5, "HTTP request"),
       Def("about_page", "About Page Exists", "identity", 4, "Website crawl"),
       Def("contact_info", "Contact Information", "identity", 4, "Website crawl"),
       Def("physical_location", "Physical Location", "identity", 4, "Website crawl"),
       Def("domain_age", "Domain Age > 2 Years", "identity", 4, "WHOIS/RDAP lookup"),
       Def("ssl_valid", "SSL Certificate Valid", "identity", 2, "TLS connection"),
       Def("privacy_policy", "Privacy Policy", "identity", 2, "Website crawl"),
       Def("linkedin_company", "LinkedIn Company Page", "leadership", 6, "Search engine lookup"),
       Def("founders_identifiable", "Founders/CEO Identifiable", "leadership", 6, "Search engine lookup"),
       Def("team_page", "Team Page Exists", "leadership", 4, "Website crawl"),
       Def("employee_count", "Employee Count Available", "leadership", 4, "LinkedIn or website"),
       Def("third_party_mentions", "Third-Party Mentions", "validation", 6, "Search engine API"),
       Def("case_studies", "Case Studies/Testimonials", "validation", 5, "Website crawl"),
       Def("partnerships", "Partnership Mentions", "validation", 4, "Website crawl"),
       Def("news_coverage", "News/Press Coverage", "validation", 5, "News search"),
       Def("search_presence", "Strong Search Presence", "validation", 5, "Search engine API"),
       Def("careers_page", "Careers Page Exists", "operational", 4, "Website crawl"),
       Def("active_jobs", "Active Job Listings", "operational", 4, "Job board search"),
       Def("tech_stack", "Tech Stack Identifiable", "operational", 4, "Tech detection"),
       Def("blog_present", "Blog/Content Present", "operational", 3, "Website crawl") >>

\* category budgets that add up to the 100 of ScoringConfig.totalMaxScore
CATEGORY_INFO_Hundred ==
    [ identity    |-> [name |-> "Company Identity", maxScore |-> 30],
      leadership  |-> [name |-> "Management & Leadership", maxScore |-> 25],
      validation  |-> [name |-> "Market & External Validation", maxScore |-> 25],
      operational |-> [name |-> "Operational Signals", maxScore |-> 20] ]

CATEGORY_INFO ==
    [ identity    |-> [name |-> "Company Identity", maxScore |-> 25],
      leadership  |-> [name |-> "Management & Leadership", maxScore |-> 20],
      validation  |-> [name |-> "Market & External Validation", maxScore |-> 25],
      operational |-> [name |-> "Operational Signals", maxScore |-> 15] ]

\* the categories in alphabetical order
CategoryOrderAlphabetical == <<"identity", "leadership", "operational", "validation">>

\* the literal of calculateCategoryScores
CategoryOrder == <<"identity", "leadership", "validation", "operational">>

DefIds == {SIGNAL_DEFINITIONS[i].id : i \in 1..Len(SIGNAL_DEFINITIONS)}

DefOf(id) == SIGNAL_DEFINITIONS[CHOOSE i \in 1..Len(SIGNAL_DEFINITIONS) : SIGNAL_DEFINITIONS[i].id = id]

-----------------------------------------------------------------------------
(* Array and string helpers of the language *)

RECURSIVE SumSeq(_)
SumSeq(s) == IF s = <<>> THEN 0 ELSE Head(s) + SumSeq(Tail(s))

\* Array.prototype.map
MapSeq(s, F(_)) ==
    LET prefix[n \in 0..Len(s)] == IF n = 0 THEN <<>> ELSE Append(prefix[n - 1], F(s[n]))
    IN  prefix[Len(s)]

\* Array.prototype.find: the first element satisfying the test, or undefined
Find(s, Test(_)) ==
    LET hits == {i \in 1..Len(s) : Test(s[i])}
    IN  IF hits = {} THEN None
        ELSE Some(s[CHOOSE i \in hits : \A j \in hits : i <= j])

\* String.prototype.includes
Includes(str, sub) ==
    \E i \in 1..(Len(str) - Len(sub) + 1) : SubSeq(str, i, i + Len(sub) - 1) = sub

Max(a, b) == IF a >= b THEN a ELSE b
Min(a, b) == IF a <= b THEN a ELSE b

\* template literal `${n}` of a non-negative integer
Digits == <<"0", "1", "2", "3", "4", "5", "6", "7", "8", "9">>
RECURSIVE NatToStr(_)
NatToStr(n) == IF n < 10 THEN Digits[n + 1] ELSE NatToStr(n \div 10) \o Digits[(n % 10) + 1]

-----------------------------------------------------------------------------
(* index.ts: mergeSignalsWithDefinitions *)

\* a lookup that keeps the first entry of an id instead of the last
SignalMapGetFirst(collectedSignals, id) ==
    LET hits == {i \in 1..Len(collectedSignals) : collectedSignals[i].id = id}
    IN  IF hits = {} THEN None
        ELSE Some(collectedSignals[CHOOSE i \in hits : \A j \in hits : i <= j])

\* new Map(collectedSignals.map((s) => [s.id, s])).get(id): a later entry with
\* the same key replaces an earlier one
SignalMapGet(collectedSignals, id) ==
    LET hits == {i \in 1..Len(collectedSignals) : collectedSignals[i].id = id}
    IN  IF hits = {} THEN None
        ELSE Some(collectedSignals[CHOOSE i \in hits : \A j \in hits : i >= j])

\* collected?.found: undefined when there is no collected entry
FoundOf(collected) == IF collected = None THEN FALSE ELSE collected[1].found

\* collected?.value
ValueOf(collected) == IF collected = None THEN None ELSE collected[1].value

MergeOne(def, collected) ==
    [ id        |-> def.id,
      name      |-> def.name,
      category  |-> def.category,
      points    |-> IF FoundOf(collected) THEN def.points ELSE 0,
      maxPoints |-> def.points,
      found     |-> FoundOf(collected),
      value     |-> ValueOf(collected),
      source    |-> def.source ]

\* a merge that emits a Signal only for the definitions some collector reported
MergeReportedOnly(collectedSignals) ==
    MapSeq(SelectSeq(SIGNAL_DEFINITIONS, LAMBDA def : SignalMapGet(collectedSignals, def.id) # None),
           LAMBDA def : MergeOne(def, SignalMapGet(collectedSignals, def.id)))

\* a merge that passes every raw finding on, one Signal per finding
MergeCollected(collectedSignals) ==
    MapSeq(collectedSignals,
           LAMBDA s : [ id |-> s.id, name |-> s.name, category |-> s.category,
                        points |-> IF s.found THEN s.maxPoints ELSE 0, maxPoints |-> s.maxPoints,
                        found |-> s.found, value |-> s.value, source |-> s.source ])

mergeSignalsWithDefinitions(collectedSignals) ==
    MapSeq(SIGNAL_DEFINITIONS, LAMBDA def : MergeOne(def, SignalMapGet(collectedSignals, def.id)))

-----------------------------------------------------------------------------
(* index.ts: calculateCategoryScores *)

\* percentage >= t, for percentage = maxScore > 0 ? (score / maxScore) * 100 : 0.
\* The comparison is made on integers: for every score in 0..maxScore of the four
\* categories the double (score / maxScore) * 100 compares with 85, 70, 50, 30
\* and 0 as the exact quotient does.
PercentageAtLeast(score, maxScore, t) ==
    IF maxScore > 0 THEN score * 100 >= t * maxScore ELSE 0 >= t

PercentagePositive(score, maxScore) == maxScore > 0 /\ score * 100 > 0

\* the five-level mapping of the headline score used for a category
CategoryCoverageLevelCollapsed(score, maxScore) ==
    IF PercentageAtLeast(score, maxScore, 85) THEN "Excellent"
    ELSE IF PercentageAtLeast(score, maxScore, 70) THEN "Good"
    ELSE IF PercentageAtLeast(score, maxScore, 50) THEN "Moderate"
    ELSE IF PercentageAtLeast(score, maxScore, 30) THEN "Limited"
    ELSE "Minimal"

CategoryCoverageLevel(score, maxScore) ==
    IF PercentageAtLeast(score, maxScore, 85) THEN "Excellent"
    ELSE IF PercentageAtLeast(score, maxScore, 70) THEN "Good"
    ELSE IF PercentageAtLeast(score, maxScore, 50) THEN "Moderate"
    ELSE IF PercentageAtLeast(score, maxScore, 30) THEN "Limited"
    ELSE IF PercentagePositive(score, maxScore) THEN "Minimal"
    ELSE "None"

CategoryScoreOf(signals, category) ==
    LET categorySignals == SelectSeq(signals, LAMBDA s : s.category = category)
        score == SumSeq(MapSeq(categorySignals, LAMBDA s : s.points))
        maxScore == CATEGORY_INFO[category].maxScore
    IN  [ category      |-> category,
          name          |-> CATEGORY_INFO[category].name,
          score         |-> score,
          maxScore      |-> maxScore,
          signals       |-> categorySignals,
          coverageLevel |-> CategoryCoverageLevel(score, maxScore) ]

calculateCategoryScores(signals) ==
    MapSeq(CategoryOrder, LAMBDA category : CategoryScoreOf(signals, category))

-----------------------------------------------------------------------------
(* index.ts: calculatePenalties *)

Penalty(id, name, points, applied, reason) ==
    [id |-> id, name |-> name, points |-> points, applied |-> applied, reason |-> reason]

\* leadershipCategory?.score ?? 0
LeadershipScore(categories) ==
    LET leadershipCategory == Find(categories, LAMBDA c : c.category = "leadership")
    IN  IF leadershipCategory = None THEN 0 ELSE leadershipCategory[1].score

\* a threshold of half the leadership budget
NoLeadershipBelowTen(categories) == LeadershipScore(categories) < 10

\* the threshold test the wrong way round
NoLeadershipInverted(categories) == LeadershipScore(categories) > 6

\* the threshold test with the bound included
NoLeadershipInclusive(categories) == LeadershipScore(categories) <= 6

NoLeadership(categories) == LeadershipScore(categories) < 6

\* signals.find((s) => s.id === id)?.found, undefined read as false by `!`
SignalFound(signals, id) == FoundOf(Find(signals, LAMBDA s : s.id = id))

\* `||` where the code has `&&`
WebsiteOnlyEither(signals) ==
    ~SignalFound(signals, "third_party_mentions") \/ ~SignalFound(signals, "news_coverage")

WebsiteOnly(signals) ==
    ~SignalFound(signals, "third_party_mentions") /\ ~SignalFound(signals, "news_coverage")

\* the test on linkedin_company without its negation
NoSocialWhenFound(signals) == SignalFound(signals, "linkedin_company")

NoSocial(signals) == ~SignalFound(signals, "linkedin_company")

\* the test on the value string alone, `found` not looked at
NewDomainIgnoringFound(signals) ==
    LET domainAgeSignal == Find(signals, LAMBDA s : s.id = "domain_age")
    IN  /\ domainAgeSignal # None
        /\ IF domainAgeSignal[1].value = None THEN FALSE
           ELSE Includes(domainAgeSignal[1].value[1], "< 1")

\* the test on `found` alone, the value string not looked at
NewDomainIgnoringValue(signals) ==
    LET domainAgeSignal == Find(signals, LAMBDA s : s.id = "domain_age")
    IN  /\ domainAgeSignal # None
        /\ domainAgeSignal[1].found = FALSE

\* domainAgeSignal?.found === false && (domainAgeSignal?.value?.includes('< 1') ?? false)
NewDomain(signals) ==
    LET domainAgeSignal == Find(signals, LAMBDA s : s.id = "domain_age")
    IN  /\ domainAgeSignal # None
        /\ domainAgeSignal[1].found = FALSE
        /\ IF domainAgeSignal[1].value = None THEN FALSE
           ELSE Includes(domainAgeSignal[1].value[1], "< 1")

PenaltyList(signals, categories) ==
    LET noLeadership == NoLeadership(categories)
        websiteOnly == WebsiteOnly(signals)
        noSocial == NoSocial(signals)
        newDomain == NewDomain(signals)
    IN  << Penalty("no_leadership", "No Leadership Identifiable", -5, noLeadership,
                   IF noLeadership THEN Some("Leadership category score below threshold") ELSE None),
           Penalty("website_only", "Website-Only Footprint", -5, websiteOnly,
                   IF websiteOnly THEN Some("No external validation signals found") ELSE None),
           Penalty("no_social", "No Social Presence", -3, noSocial,
                   IF noSocial THEN Some("LinkedIn company page not found") ELSE None),
           Penalty("new_domain", "Very New Domain", -2, newDomain,
                   IF newDomain THEN ValueOf(Find(signals, LAMBDA s : s.id = "domain_age")) ELSE None) >>

\* a total that forgets the filter on `applied`
TotalPenaltyUnfiltered(penalties) == SumSeq(MapSeq(penalties, LAMBDA p : p.points))

\* penalties.filter((p) => p.applied).reduce((sum, p) => sum + p.points, 0)
TotalPenalty(penalties) ==
    SumSeq(MapSeq(SelectSeq(penalties, LAMBDA p : p.applied), LAMBDA p : p.points))

calculatePenalties(signals, categories) ==
    LET penalties == PenaltyList(signals, categories)
    IN  [penalties |-> penalties, totalPenalty |-> TotalPenalty(penalties)]

-----------------------------------------------------------------------------
(* types.ts: getCoverageLevel, getEffortEstimate *)

COVERAGE_THRESHOLDS == [Excellent |-> 85, Good |-> 70, Moderate |-> 50, Limited |-> 30, Minimal |-> 0]

\* the six-level mapping of a category used for the headline score
getCoverageLevelWithNone(score) ==
    IF score >= COVERAGE_THRESHOLDS.Excellent THEN "Excellent"
    ELSE IF score >= COVERAGE_THRESHOLDS.Good THEN "Good"
    ELSE IF score >= COVERAGE_THRESHOLDS.Moderate THEN "Moderate"
    ELSE IF score >= COVERAGE_THRESHOLDS.Limited THEN "Limited"
    ELSE IF score > COVERAGE_THRESHOLDS.Minimal THEN "Minimal"
    ELSE "None"

getCoverageLevel(score) ==
    IF score >= COVERAGE_THRESHOLDS.Excellent THEN "Excellent"
    ELSE IF score >= COVERAGE_THRESHOLDS.Good THEN "Good"
    ELSE IF score >= COVERAGE_THRESHOLDS.Moderate THEN "Moderate"
    ELSE IF score >= COVERAGE_THRESHOLDS.Limited THEN "Limited"
    ELSE "Minimal"

\* missingByCategory[category], 0 standing for undefined (undefined > n is false)
MissingByCategory(missingSignals, category) ==
    Len(SelectSeq(missingSignals, LAMBDA s : s.category = category))

\* the four conditions chained with `else if`: only the first that holds
\* gives a reason
EffortReasonsExclusive(missingSignals) ==
    LET criticalMissing == SelectSeq(missingSignals, LAMBDA s : s.maxPoints >= 5)
    IN  IF Len(criticalMissing) > 0
          THEN <<NatToStr(Len(criticalMissing)) \o " critical signal(s) require manual verification">>
        ELSE IF MissingByCategory(missingSignals, "leadership") > 2
          THEN <<"Leadership information requires extensive research">>
        ELSE IF MissingByCategory(missingSignals, "validation") > 3
          THEN <<"Limited external validation will require primary research">>
        ELSE IF MissingByCategory(missingSignals, "identity") > 2
          THEN <<"Basic company identity needs verification">>
        ELSE <<>>

EffortReasons(missingSignals) ==
    LET criticalMissing == SelectSeq(missingSignals, LAMBDA s : s.maxPoints >= 5)
    IN  (IF Len(criticalMissing) > 0
           THEN <<NatToStr(Len(criticalMissing)) \o " critical signal(s) require manual verification">>
           ELSE <<>>)
        \o (IF MissingByCategory(missingSignals, "leadership") > 2
              THEN <<"Leadership information requires extensive research">> ELSE <<>>)
        \o (IF MissingByCategory(missingSignals, "validation") > 3
              THEN <<"Limited external validation will require primary research">> ELSE <<>>)
        \o (IF MissingByCategory(missingSignals, "identity") > 2
              THEN <<"Basic company identity needs verification">> ELSE <<>>)

\* the thresholds compared with `>`
EffortLevelStrict(score) ==
    IF score > 70 THEN "Low" ELSE IF score > 50 THEN "Medium" ELSE "High"

EffortLevel(score) ==
    IF score >= 70 THEN "Low" ELSE IF score >= 50 THEN "Medium" ELSE "High"

FallbackReason(level) ==
    IF level = "Low" THEN "Standard validation of existing signals"
    ELSE IF level = "Medium" THEN "Moderate research needed for gaps"
    ELSE "Extensive primary research required"

getEffortEstimate(score, missingSignals) ==
    LET reasons == EffortReasons(missingSignals)
        level == EffortLevel(score)
    IN  [level |-> level, reasons |-> IF Len(reasons) > 0 THEN reasons ELSE <<FallbackReason(level)>>]

-----------------------------------------------------------------------------
(* index.ts: the aggregation phase of runScan, lines 118-134 *)

\* a composition that forgets the clamp
ComposeScoreUnclamped(categoryTotal, totalPenalty) == categoryTotal + totalPenalty

\* Math.max(0, Math.min(100, categoryTotal + totalPenalty))
ComposeScore(categoryTotal, totalPenalty) == Max(0, Min(100, categoryTotal + totalPenalty))

CategoryTotal(categories) == SumSeq(MapSeq(categories, LAMBDA c : c.score))

Aggregation(collectedSignals) ==
    LET signals == mergeSignalsWithDefinitions(collectedSignals)
        categories == calculateCategoryScores(signals)
        pen == calculatePenalties(signals, categories)
        score == ComposeScore(CategoryTotal(categories), pen.totalPenalty)
        missingSignals == SelectSeq(signals, LAMBDA s : ~s.found)
    IN  [ signals        |-> signals,
          categories     |-> categories,
          penalties      |-> pen.penalties,
          totalPenalty   |-> pen.totalPenalty,
          score          |-> score,
          coverageLevel  |-> getCoverageLevel(score),
          effortEstimate |-> getEffortEstimate(score, missingSignals) ]

-----------------------------------------------------------------------------
(* collectors/website.ts: the Signal records a collector pushes *)

Lower == "abcdefghijklmnopqrstuvwxyz"
Upper == "ABCDEFGHIJKLMNOPQRSTUVWXYZ"

Char(str, i) == SubSeq(str, i, i)

\* c.toUpperCase() of a one-character string
ToUpperCase(c) ==
    LET hits == {k \in 1..Len(Lower) : Char(Lower, k) = c}
    IN  IF hits = {} THEN c ELSE Char(Upper, CHOOSE k \in hits : TRUE)

\* id.replace(/_/g, ' ').replace(/\b\w/g, (c) => c.toUpperCase()), from position i on
RECURSIVE TitleFrom(_, _)
TitleFrom(id, i) ==
    IF i > Len(id) THEN ""
    ELSE LET c == IF Char(id, i) = "_" THEN " " ELSE Char(id, i)
             atWordStart == i = 1 \/ Char(id, i - 1) = "_"
         IN  (IF atWordStart THEN ToUpperCase(c) ELSE c) \o TitleFrom(id, i + 1)

WebsiteSignalIds ==
    << "about_page", "contact_info", "physical_location", "privacy_policy", "team_page",
       "careers_page", "case_studies", "partnerships", "blog_present" >>

\* categoryMap[id] || 'identity'
getSignalCategory(id) ==
    IF id \in {"about_page", "contact_info", "physical_location", "privacy_policy"} THEN "identity"
    ELSE IF id = "team_page" THEN "leadership"
    ELSE IF id \in {"careers_page", "blog_present"} THEN "operational"
    ELSE IF id \in {"case_studies", "partnerships"} THEN "validation"
    ELSE "identity"

\* pointsMap[id] || 0
getSignalMaxPoints(id) ==
    IF id \in {"about_page", "contact_info", "physical_location", "team_page", "careers_page", "partnerships"} THEN 4
    ELSE IF id = "privacy_policy" THEN 2
    ELSE IF id = "case_studies" THEN 5
    ELSE IF id = "blog_present" THEN 3
    ELSE 0

\* the record addMissingWebsiteSignals pushes for an id
MissingSignal(id) ==
    [ id |-> id, name |-> TitleFrom(id, 1), found |-> FALSE, value |-> None,
      source |-> "Website crawl", category |-> getSignalCategory(id),
      points |-> 0, maxPoints |-> getSignalMaxPoints(id) ]

\* the record a collector pushes for a signal it checked: its literals repeat
\* those of the registry, points is `found ? n : 0`
CheckedSignal(id, name, category, maxPoints, source, found, value) ==
    [ id |-> id, name |-> name, found |-> found, value |-> value,
      source |-> source, category |-> category,
      points |-> IF found THEN maxPoints ELSE 0, maxPoints |-> maxPoints ]

CheckedDef(def, found, value) ==
    CheckedSignal(def.id, def.name, def.category, def.points, def.source, found, value)

-----------------------------------------------------------------------------
(* Inputs of the aggregation phase *)

\* an id no definition of the registry has
UnknownId == "glassdoor_rating"

\* value strings of the domain collector (domain.ts lines 38-44), None for undefined
DomainAgeValues == {None, Some("< 1 year (5 months)"), Some("14 months")}

ValuesFor(id) == IF id = "domain_age" THEN DomainAgeValues ELSE {None}

\* a raw finding: a found signal as its collector pushes it, a signal that is
\* not found as addMissingWebsiteSignals pushes it (with the value given)
RawFinding(id, found, value) ==
    IF id \in DefIds
    THEN IF found THEN CheckedDef(DefOf(id), TRUE, value)
         ELSE [MissingSignal(id) EXCEPT !.value = value]
    ELSE CheckedSignal(id, "Glassdoor Rating", "validation", 3, "Review site", found, value)

FindingChoices ==
    {RawFinding(id, found, value) :
        <<id, found, value>> \in
            {t \in (DefIds \cup {UnknownId}) \X BOOLEAN \X DomainAgeValues : t[3] \in ValuesFor(t[1])}}

\* every signal of the registry reported as found
AllFound == MapSeq(SIGNAL_DEFINITIONS, LAMBDA def : CheckedDef(def, TRUE, None))

\* collectWebsiteSignals when the site is not reachable (website.ts lines 14-35)
WebsiteUnreachable ==
    <<CheckedDef(DefOf("website_reachable"), FALSE, Some("Not reachable"))>>
    \o MapSeq(WebsiteSignalIds, MissingSignal)

WebsiteIds == {"website_reachable"} \cup {WebsiteSignalIds[i] : i \in 1..Len(WebsiteSignalIds)}

\* an unreachable site, every signal of the other collectors found
UnreachableOthersFound ==
    WebsiteUnreachable \o SelectSeq(AllFound, LAMBDA s : s.id \notin WebsiteIds)

Baselines == {<<>>, AllFound, UnreachableOthersFound}

\* the position of an id in the registry, unknown ids after all others
IdRank(id) ==
    IF id \in DefIds
    THEN CHOOSE i \in 1..Len(SIGNAL_DEFINITIONS) : SIGNAL_DEFINITIONS[i].id = id
    ELSE Len(SIGNAL_DEFINITIONS) + 1

\* up to MaxExtra further findings.  Findings of different ids come in the
\* order of the registry; findings of one id come in every order, which is the
\* order the Map of the merge can tell apart.
Extras ==
    {e \in UNION {[1..n -> FindingChoices] : n \in 0..MaxExtra} :
        \A i \in 1..(Len(e) - 1) : IdRank(e[i].id) <= IdRank(e[i + 1].id)}

\* the lists of raw findings the aggregation phase is run on
CollectedInputs == {b \o e : b \in Baselines, e \in Extras}

-----------------------------------------------------------------------------
(* The aggregation phase on its own: runScan from line 116 on, entered with *)
(* any list of raw findings                                                 *)

\* no request has reached route.ts
JobsIdle ==
    /\ scanJobs = <<>>
    /\ scanPc = <<>>
    /\ now = 0
    /\ response = None
    /\ request = None

Idle ==
    /\ outcome = <<>>
    /\ settled = {}
    /\ companyName = ""
    /\ seenName = <<>>
    /\ errors = <<>>
    /\ financialData = None
    /\ returned = None

InitAggregation ==
    /\ pc = "aggregate"
    /\ allSignals \in CollectedInputs
    /\ result = None
    /\ Idle
    /\ args = None
    /\ ret = None
    /\ JobsIdle

\* index.ts lines 116-152: merge, category scores, penalties, score, effort
\* estimate and the preliminary result; one step, the phase has no suspension
\* point
Aggregate ==
    /\ pc = "aggregate"
    /\ result' = Some(Aggregation(allSignals)
                        @@ [companyName |-> companyName, financialData |-> financialData])
    /\ pc' = "interpret"
    /\ UNCHANGED <<outcome, settled, companyName, seenName, allSignals, errors, financialData,
                   returned, args, ret>>
    /\ UNCHANGED jobVars

NextAggregation == Aggregate

SpecAggregation == InitAggregation /\ [][NextAggregation]_vars

-----------------------------------------------------------------------------
(* The collectors, as runScan sees them: what a call settles with *)

\* a CollectorResult: signals, metadata.companyName and (financial collector
\* only) financialData
Fulfilled(signals, name, financial) ==
    [status |-> "fulfilled", signals |-> signals, companyName |-> name, financialData |-> financial]

Rejected == [status |-> "rejected", signals |-> <<>>, companyName |-> None, financialData |-> None]

\* collectWebsiteSignals on a reachable site: website_reachable, then the nine
\* page signals in the order they are pushed
WebsiteReachable(found) ==
    <<CheckedDef(DefOf("website_reachable"), TRUE, Some("HTTP 200 OK"))>>
    \o MapSeq(WebsiteSignalIds, LAMBDA id : CheckedDef(DefOf(id), found, None))

WebsiteOutcomes ==
    { Rejected,
      Fulfilled(WebsiteUnreachable, None, None),
      Fulfilled(WebsiteReachable(FALSE), None, None),
      Fulfilled(WebsiteReachable(TRUE), Some("Acme Corp"), None) }

\* collectDomainSignals: domain_age with the value string of its age, ssl_valid
DomainSignals(age, sslValid) ==
    << CheckedDef(DefOf("domain_age"), age = "old",
                  IF age = "old" THEN Some("3 years")
                  ELSE IF age = "under2" THEN Some("14 months")
                  ELSE IF age = "under1" THEN Some("< 1 year (5 months)")
                  ELSE None),
       CheckedDef(DefOf("ssl_valid"), sslValid, IF sslValid THEN Some("Valid HTTPS") ELSE None) >>

DomainOutcomes ==
    { Rejected,
      Fulfilled(DomainSignals("unknown", FALSE), None, None),
      Fulfilled(DomainSignals("under1", TRUE), None, None),
      Fulfilled(DomainSignals("old", TRUE), None, None) }

\* collectSearchSignals: its source literals are not those of the registry
SearchSignals(found) ==
    << CheckedSignal("third_party_mentions", "Third-Party Mentions", "validation", 6,
                     "Cross-referenced search results", found,
                     Some(IF found THEN "3 verified mentions" ELSE "0 verified mentions")),
       CheckedSignal("news_coverage", "News/Press Coverage", "validation", 5,
                     "News search API", found,
                     Some(IF found THEN "1 articles found" ELSE "No coverage found")),
       CheckedSignal("search_presence", "Strong Search Presence", "validation", 5,
                     "Search engine analysis", found,
                     Some(IF found THEN "10 total results" ELSE "0 total results")) >>

SearchOutcomes ==
    {Rejected, Fulfilled(SearchSignals(FALSE), None, None), Fulfilled(SearchSignals(TRUE), None, None)}

\* a LinkedIn collector that finds the employee count with the company page
LinkedInSignalsWithEmployees(found) ==
    << CheckedDef(DefOf("linkedin_company"), found,
                  Some(IF found THEN "https://www.linkedin.com/company/acme" ELSE "Not found in search results")),
       CheckedDef(DefOf("founders_identifiable"), found,
                  Some(IF found THEN "1 profile(s) found" ELSE "Not found in search results")),
       CheckedDef(DefOf("employee_count"), found,
                  Some(IF found THEN "51-200 employees" ELSE "Requires LinkedIn API access")) >>

\* collectLinkedInSignals: employee_count is pushed as not found in every case
LinkedInSignals(found) ==
    << CheckedDef(DefOf("linkedin_company"), found,
                  Some(IF found THEN "https://www.linkedin.com/company/acme" ELSE "Not found in search results")),
       CheckedDef(DefOf("founders_identifiable"), found,
                  Some(IF found THEN "1 profile(s) found" ELSE "Not found in search results")),
       CheckedDef(DefOf("employee_count"), FALSE, Some("Requires LinkedIn API access")) >>

LinkedInOutcomes ==
    {Rejected, Fulfilled(LinkedInSignals(FALSE), None, None), Fulfilled(LinkedInSignals(TRUE), None, None)}

\* a careers collector that also reports the careers_page signal of the
\* website collector
CareersSignalsWithPage(found) ==
    << CheckedDef(DefOf("active_jobs"), found,
                  Some(IF found THEN "2 listing(s) found" ELSE "No listings found")),
       CheckedDef(DefOf("careers_page"), found, None) >>

CareersSignals(found) ==
    <<CheckedDef(DefOf("active_jobs"), found,
                 Some(IF found THEN "2 listing(s) found" ELSE "No listings found"))>>

CareersOutcomes ==
    {Rejected, Fulfilled(CareersSignals(FALSE), None, None), Fulfilled(CareersSignals(TRUE), None, None)}

TechStackSignals(found) ==
    <<CheckedDef(DefOf("tech_stack"), found, IF found THEN Some("React, Next.js") ELSE None)>>

TechStackOutcomes ==
    {Rejected, Fulfilled(TechStackSignals(FALSE), None, None), Fulfilled(TechStackSignals(TRUE), None, None)}

\* collectFinancialSignals: no signals, financialData with its `available`
\* flag and the number of its records
FinancialOutcomes ==
    { Rejected,
      Fulfilled(<<>>, None, Some([available |-> FALSE, records |-> 0])),
      Fulfilled(<<>>, None, Some([available |-> TRUE, records |-> 1])) }

-----------------------------------------------------------------------------
(* index.ts: runScan *)

\* the array handed to Promise.allSettled, in its order (lines 65-72)
FanOut == <<"domain", "search", "linkedin", "careers", "techstack", "financials">>

FanOutSet == {FanOut[i] : i \in 1..Len(FanOut)}

\* the collectors whose signals are pushed to allSignals (lines 74-107)
SignalCollectors == <<"domain", "search", "linkedin", "careers", "techstack">>

\* domainToCompanyName(domain), the name the scan starts with
InitialCompanyName == "Acme"

\* what generateAIInterpretation and generateFinancialAnalysis settle with:
\* a rejection, null, or a string
AiOutcomes ==
    { [status |-> "rejected", value |-> None],
      [status |-> "fulfilled", value |-> None],
      [status |-> "fulfilled", value |-> Some("")],
      [status |-> "fulfilled", value |-> Some("## Executive Summary")] }

Init ==
    /\ pc = "website"
    /\ outcome \in
          { [website |-> w, domain |-> d, search |-> s, linkedin |-> l,
             careers |-> c, techstack |-> t, financials |-> f] :
                w \in WebsiteOutcomes, d \in DomainOutcomes, s \in SearchOutcomes,
                l \in LinkedInOutcomes, c \in CareersOutcomes, t \in TechStackOutcomes,
                f \in FinancialOutcomes }
    /\ settled = {}
    /\ companyName = InitialCompanyName
    /\ seenName = <<>>
    /\ allSignals = <<>>
    /\ errors = <<>>
    /\ financialData = None
    /\ result = None
    /\ returned = None
    /\ args = None
    /\ ret = None
    /\ JobsIdle

\* the website step without `context.companyName = companyName`: the fan-out
\* collectors are handed the name the scan started with
WebsiteSettledStaleContext ==
    /\ pc = "website"
    /\ LET websiteResult == outcome.website
           ok == websiteResult.status = "fulfilled"
           name == IF ok /\ websiteResult.companyName # None /\ websiteResult.companyName[1] # ""
                   THEN websiteResult.companyName[1] ELSE companyName
       IN  /\ allSignals' = (IF ok THEN allSignals \o websiteResult.signals ELSE allSignals)
           /\ errors' = (IF ok THEN errors ELSE Append(errors, "website"))
           /\ companyName' = name
           /\ seenName' = [c \in FanOutSet |-> companyName]
    /\ pc' = "fanout"
    /\ UNCHANGED <<outcome, settled, financialData, result, returned, args, ret>>
    /\ UNCHANGED jobVars

\* lines 46-72: the website collector settles, its signals and company name
\* are taken (or its failure recorded), then the six fan-out collectors are
\* called, each reading the context as it is now
WebsiteSettled ==
    /\ pc = "website"
    /\ LET websiteResult == outcome.website
           ok == websiteResult.status = "fulfilled"
           name == IF ok /\ websiteResult.companyName # None /\ websiteResult.companyName[1] # ""
                   THEN websiteResult.companyName[1] ELSE companyName
       IN  /\ allSignals' = (IF ok THEN allSignals \o websiteResult.signals ELSE allSignals)
           /\ errors' = (IF ok THEN errors ELSE Append(errors, "website"))
           /\ companyName' = name
           /\ seenName' = [c \in FanOutSet |-> name]
    /\ pc' = "fanout"
    /\ UNCHANGED <<outcome, settled, financialData, result, returned, args, ret>>
    /\ UNCHANGED jobVars

\* a fan-out collector's promise settles
Settle(c) ==
    /\ pc = "fanout"
    /\ c \notin settled
    /\ settled' = settled \cup {c}
    /\ UNCHANGED <<pc, outcome, companyName, seenName, allSignals, errors, financialData,
                   result, returned, args, ret>>
    /\ UNCHANGED jobVars

\* a combinator that resolves with the first promise to settle
AnySettled(done) == \E c \in FanOutSet : c \in done

\* a wait for the collectors whose signals are pushed, the financial one left out
SignalCollectorsSettled(done) ==
    \A c \in {"domain", "search", "linkedin", "careers", "techstack"} : c \in done

\* Promise.allSettled resolves when every promise of the array has settled
AllSettled(done) == \A c \in FanOutSet : c \in done

\* the entry of the allSettled result array for a collector
SettledResult(c) ==
    IF c \in settled THEN outcome[c]
    ELSE [status |-> "pending", signals |-> <<>>, companyName |-> None, financialData |-> None]

\* result processing under one try block: nothing is pushed from the first
\* collector on that did not fulfil
RECURSIVE PushedSignalsUntilRejected(_)
PushedSignalsUntilRejected(cs) ==
    IF cs = <<>> \/ SettledResult(Head(cs)).status # "fulfilled" THEN <<>>
    ELSE SettledResult(Head(cs)).signals \o PushedSignalsUntilRejected(Tail(cs))

\* lines 74-107, one collector after the other in the order of the array:
\* fulfilled pushes the signals, anything else records an error
RECURSIVE PushedSignals(_), PushedErrors(_)
PushedSignals(cs) ==
    IF cs = <<>> THEN <<>>
    ELSE (IF SettledResult(Head(cs)).status = "fulfilled" THEN SettledResult(Head(cs)).signals ELSE <<>>)
         \o PushedSignals(Tail(cs))

PushedErrors(cs) ==
    IF cs = <<>> THEN <<>>
    ELSE (IF SettledResult(Head(cs)).status = "fulfilled" THEN <<>> ELSE <<Head(cs)>>)
         \o PushedErrors(Tail(cs))

\* result processing that gives up the fan-out findings when the financial
\* collector rejected
ProcessResultsFinancialsRequired ==
    /\ pc = "fanout"
    /\ AllSettled(settled)
    /\ LET financialResult == SettledResult("financials")
       IN  /\ allSignals' =
                 (IF financialResult.status = "rejected" THEN allSignals
                  ELSE allSignals \o PushedSignals(SignalCollectors))
           /\ financialData' =
                 (IF financialResult.status = "fulfilled" /\ financialResult.financialData[1].available
                  THEN financialResult.financialData ELSE financialData)
           /\ errors' = errors \o PushedErrors(SignalCollectors)
                 \o (IF financialResult.status = "rejected" THEN <<"financials">> ELSE <<>>)
    /\ pc' = "aggregate"
    /\ UNCHANGED <<outcome, settled, companyName, seenName, result, returned, args, ret>>
    /\ UNCHANGED jobVars

\* lines 64-114: allSettled resolves and the results are processed
ProcessResults ==
    /\ pc = "fanout"
    /\ AllSettled(settled)
    /\ allSignals' = allSignals \o PushedSignals(SignalCollectors)
    /\ LET financialResult == SettledResult("financials")
       IN  /\ financialData' =
                 (IF financialResult.status = "fulfilled" /\ financialResult.financialData[1].available
                  THEN financialResult.financialData ELSE financialData)
           /\ errors' = errors \o PushedErrors(SignalCollectors)
                 \o (IF financialResult.status = "rejected" THEN <<"financials">> ELSE <<>>)
    /\ pc' = "aggregate"
    /\ UNCHANGED <<outcome, settled, companyName, seenName, result, returned, args, ret>>
    /\ UNCHANGED jobVars

\* value of a settled AI promise as lines 167-173 read it: the string when
\* fulfilled with a truthy value, undefined otherwise
AiText(settledPromise) ==
    IF settledPromise.status = "fulfilled" /\ settledPromise.value # None /\ settledPromise.value[1] # ""
    THEN settledPromise.value ELSE None

\* the AI step with `await Promise.all`: a rejected interpretation call makes
\* runScan throw, nothing is returned
InterpretFailsOnReject ==
    /\ pc = "interpret"
    /\ \E interpretation \in AiOutcomes, analysis \in AiOutcomes :
          LET wantsAnalysis ==
                  /\ financialData # None
                  /\ financialData[1].available
                  /\ financialData[1].records > 0
          IN  /\ ~wantsAnalysis => analysis = [status |-> "fulfilled", value |-> None]
              /\ returned' =
                    (IF interpretation.status = "rejected" THEN None
                     ELSE Some([aiInterpretation |-> AiText(interpretation),
                                financialAnalysis |-> IF wantsAnalysis THEN AiText(analysis) ELSE None]
                               @@ result[1]))
    /\ pc' = "done"
    /\ UNCHANGED <<outcome, settled, companyName, seenName, allSignals, errors, financialData,
                   result, args, ret>>
    /\ UNCHANGED jobVars

\* lines 154-183: the AI calls settle and the ScanResult is returned
Interpret ==
    /\ pc = "interpret"
    /\ \E interpretation \in AiOutcomes, analysis \in AiOutcomes :
          LET wantsAnalysis ==
                  /\ financialData # None
                  /\ financialData[1].available
                  /\ financialData[1].records > 0
          IN  /\ ~wantsAnalysis => analysis = [status |-> "fulfilled", value |-> None]
              /\ returned' = Some([aiInterpretation |-> AiText(interpretation),
                                   financialAnalysis |-> IF wantsAnalysis THEN AiText(analysis) ELSE None]
                                  @@ result[1])
    /\ pc' = "done"
    /\ UNCHANGED <<outcome, settled, companyName, seenName, allSignals, errors, financialData,
                   result, args, ret>>
    /\ UNCHANGED jobVars

Next ==
    \/ WebsiteSettled
    \/ \E c \in FanOutSet : Settle(c)
    \/ ProcessResults
    \/ Aggregate
    \/ Interpret

Spec == Init /\ [][Next]_vars

\* runScan under the scheduling JavaScript guarantees: a continuation runs
\* once the promise it awaits has settled, so the steps of the orchestrator
\* (and the website and AI calls, taken here to settle) are taken when they
\* can be.  Nothing in runScan or in the fan-out collectors' fetch calls bounds
\* the time a fan-out collector takes, so no fairness is stated for Settle.
SpecFair ==
    /\ Init
    /\ [][Next]_vars
    /\ WF_vars(WebsiteSettled)
    /\ WF_vars(ProcessResults)
    /\ WF_vars(Aggregate)
    /\ WF_vars(Interpret)

-----------------------------------------------------------------------------
(* types.ts: getEffortEstimate called on its own *)

\* how many signals are missing, or are not missing, in an input of
\* getEffortEstimate
MaxMissing == 2

\* every signal of the registry as the merge emits it when it is not found
AllMissing == mergeSignalsWithDefinitions(<<>>)

\* how many signals of one category are missing in the category-wise inputs:
\* the counts on both sides of the thresholds 2 and 3 of getEffortEstimate
TailCounts == {0, 2, 3, 4}

\* the positions of the last n definitions of a category
LastOfCategory(category, n) ==
    LET idx == {i \in 1..Len(AllMissing) : AllMissing[i].category = category}
    IN  {i \in idx : Cardinality({j \in idx : j > i}) < n}

\* the lists of missing signals, in registry order: at most MaxMissing signals
\* of the registry, or all but at most MaxMissing, or for each category the
\* last 0, 2, 3 or 4 of its signals
MissingInputs ==
    LET idx == 1..Len(AllMissing)
        few == {m \in SUBSET idx : Cardinality(m) <= MaxMissing}
        byCategory == {UNION {LastOfCategory(CategoryOrder[k], f[k]) : k \in 1..Len(CategoryOrder)} :
                          f \in [1..Len(CategoryOrder) -> TailCounts]}
        picks == few \cup {idx \ m : m \in few} \cup byCategory
    IN  {SelectSeq(AllMissing, LAMBDA sig : IdRank(sig.id) \in m) : m \in picks}

InitEffort ==
    /\ pc = "call"
    /\ args \in {[score |-> sc, missingSignals |-> m] : sc \in 0..100, m \in MissingInputs}
    /\ ret = None
    /\ allSignals = <<>>
    /\ result = None
    /\ Idle
    /\ JobsIdle

\* getEffortEstimate(score, missingSignals) returns
CallGetEffortEstimate ==
    /\ pc = "call"
    /\ ret' = Some(getEffortEstimate(args.score, args.missingSignals))
    /\ pc' = "returned"
    /\ UNCHANGED <<outcome, settled, companyName, seenName, allSignals, errors, financialData,
                   result, returned, args>>
    /\ UNCHANGED jobVars

NextEffort == CallGetEffortEstimate

SpecEffort == InitEffort /\ [][NextEffort]_vars

-----------------------------------------------------------------------------
(* utils/url.ts: normalizeUrl *)

\* c.toLowerCase() of a one-character string
ToLowerCase(c) ==
    LET hits == {k \in 1..Len(Upper) : Char(Upper, k) = c}
    IN  IF hits = {} THEN c ELSE Char(Lower, CHOOSE k \in hits : TRUE)

RECURSIVE LowerFrom(_, _)
LowerFrom(str, i) == IF i > Len(str) THEN "" ELSE ToLowerCase(Char(str, i)) \o LowerFrom(str, i + 1)

\* String.prototype.trim, for strings padded with spaces
RECURSIVE Trim(_)
Trim(str) ==
    IF str = "" THEN ""
    ELSE IF Char(str, 1) = " " THEN Trim(SubSeq(str, 2, Len(str)))
    ELSE IF Char(str, Len(str)) = " " THEN Trim(SubSeq(str, 1, Len(str) - 1))
    ELSE str

\* url.replace(/\/+$/, '')
RECURSIVE StripTrailingSlashes(_)
StripTrailingSlashes(str) ==
    IF str # "" /\ Char(str, Len(str)) = "/" THEN StripTrailingSlashes(SubSeq(str, 1, Len(str) - 1))
    ELSE str

StartsWith(str, prefix) == Len(str) >= Len(prefix) /\ SubSeq(str, 1, Len(prefix)) = prefix

\* the host of "https://host/path": what follows the scheme, up to the first "/"
HostOf(url) ==
    LET rest == SubSeq(url, Len("https://") + 1, Len(url))
        slashes == {i \in 1..Len(rest) : Char(rest, i) = "/"}
    IN  IF slashes = {} THEN rest
        ELSE SubSeq(rest, 1, (CHOOSE i \in slashes : \A j \in slashes : i <= j) - 1)

\* the url normalizeUrl hands to `new URL`
WithScheme(input) ==
    LET stripped == StripTrailingSlashes(LowerFrom(Trim(input), 1))
        url == IF ~StartsWith(stripped, "http://") /\ ~StartsWith(stripped, "https://")
               THEN "https://" \o stripped ELSE stripped
    IN  IF StartsWith(url, "http://") THEN "https://" \o SubSeq(url, Len("http://") + 1, Len(url)) ELSE url

\* normalizeUrl(input): parsed.origin, or None when `new URL` throws (an empty
\* host, or a host holding a space)
normalizeUrl(input) ==
    LET host == HostOf(WithScheme(input))
    IN  IF host = "" \/ Includes(host, " ") THEN None ELSE Some("https://" \o host)

-----------------------------------------------------------------------------
(* app/api/scan/route.ts: the job store, POST and runScanAsync *)

\* how many scans are requested
MaxJobs == 2

\* how many times the clock advances
MaxTicks == 3

\* the ids generateJobId returns; no id is returned twice
JobIds == {"scan_" \o NatToStr(n) : n \in 1..MaxJobs}

\* cleanupOldJobs: 30 minutes, in milliseconds
maxAge == 30 * 60 * 1000

\* the step of the clock: 20 minutes
TickMs == 20 * 60 * 1000

\* the request bodies: None for a body request.json() rejects, else the
\* body's url field, None when it is missing
Bodies ==
    { None,
      Some([url |-> None]), Some([url |-> Some("")]), Some([url |-> Some(" ")]),
      Some([url |-> Some("acme corp")]), Some([url |-> Some("Acme.com/")]),
      Some([url |-> Some("http://acme.com")]) }

\* normalizeUrl on the url strings of the request bodies
NormalizedUrl ==
    [u \in {b[1].url[1] : b \in {x \in Bodies : x # None /\ x[1].url # None}} |-> normalizeUrl(u)]

\* an entry of scanJobs; createdAt and updatedAt are the milliseconds their
\* ISO strings stand for
Job(status, progress, currentStep, createdAt) ==
    [ status |-> status, progress |-> progress, currentStep |-> currentStep,
      result |-> None, error |-> None, createdAt |-> createdAt, updatedAt |-> createdAt ]

\* NextResponse.json(body, { status })
Response(status, body) == [status |-> status, body |-> body]

\* cleanupOldJobs: the store without the jobs created more than maxAge ago
cleanupOldJobs(jobs, t) ==
    [id \in {j \in DOMAIN jobs : ~(t - jobs[j].createdAt > maxAge)} |-> jobs[id]]

\* a callback that stores a new entry when the job is not in the store
OnProgressUpsert(jobs, id, progress, step, t) ==
    IF id \in DOMAIN jobs
    THEN [jobs EXCEPT ![id].progress = progress, ![id].currentStep = step, ![id].updatedAt = t]
    ELSE (id :> Job("processing", progress, step, t)) @@ jobs

\* the onProgress callback of runScanAsync, lines 93-100
OnProgress(jobs, id, progress, step, t) ==
    IF id \in DOMAIN jobs
    THEN [jobs EXCEPT ![id].progress = progress, ![id].currentStep = step, ![id].updatedAt = t]
    ELSE jobs

InitJobs ==
    /\ scanJobs = <<>>
    /\ scanPc = [id \in JobIds |-> "unused"]
    /\ now = 0
    /\ response = None
    /\ request = None
    /\ pc = "idle"
    /\ allSignals = <<>>
    /\ result = None
    /\ Idle
    /\ args = None
    /\ ret = None

\* the clock advances
Tick ==
    /\ now < MaxTicks * TickMs
    /\ now' = now + TickMs
    /\ UNCHANGED <<scanJobs, scanPc, response, request>>
    /\ UNCHANGED scanVars

\* a POST that calls cleanupOldJobs before it validates the url
PostRejectedAfterCleanup(body) ==
    /\ \/ /\ body = None
          /\ response' = Response(500, [error |-> "Internal server error"])
       \/ /\ body # None
          /\ body[1].url = None \/ body[1].url = Some("")
          /\ response' = Response(400, [error |-> "URL is required"])
       \/ /\ body # None
          /\ body[1].url # None
          /\ body[1].url # Some("")
          /\ NormalizedUrl[body[1].url[1]] = None
          /\ response' = Response(400, [error |-> "Invalid URL format"])
    /\ request' = Some(body)
    /\ scanJobs' = cleanupOldJobs(scanJobs, now)
    /\ UNCHANGED <<scanPc, now>>
    /\ UNCHANGED scanVars

\* POST, lines 32-53 and 79-85: a body that is not JSON gives 500, a missing
\* or empty url 400, a url normalizeUrl throws on 400; the store is not touched
PostRejected(body) ==
    /\ \/ /\ body = None
          /\ response' = Response(500, [error |-> "Internal server error"])
       \/ /\ body # None
          /\ body[1].url = None \/ body[1].url = Some("")
          /\ response' = Response(400, [error |-> "URL is required"])
       \/ /\ body # None
          /\ body[1].url # None
          /\ body[1].url # Some("")
          /\ NormalizedUrl[body[1].url[1]] = None
          /\ response' = Response(400, [error |-> "Invalid URL format"])
    /\ request' = Some(body)
    /\ UNCHANGED <<scanJobs, scanPc, now>>
    /\ UNCHANGED scanVars

\* POST, lines 55-78, for a url normalizeUrl accepts: old jobs are removed,
\* the job is created as 'processing', runScanAsync is called and runs up to
\* runScan's first await (onProgress(10, ...) included), the response is sent
PostAccepted(body, jobId) ==
    /\ body # None
    /\ body[1].url # None
    /\ body[1].url # Some("")
    /\ NormalizedUrl[body[1].url[1]] # None
    /\ scanPc[jobId] = "unused"
    /\ LET kept == cleanupOldJobs(scanJobs, now)
           created == (jobId :> Job("processing", 0, "Initializing...", now)) @@ kept
       IN  scanJobs' = OnProgress(created, jobId, 10, "Checking website...", now)
    /\ scanPc' = [scanPc EXCEPT ![jobId] = "website"]
    /\ response' = Response(200, [jobId |-> jobId, status |-> "processing", estimatedTime |-> 30])
    /\ request' = Some(body)
    /\ UNCHANGED now
    /\ UNCHANGED scanVars

\* runScan, line 60: the website collector has settled
ScanWebsiteSettled(jobId) ==
    /\ scanPc[jobId] = "website"
    /\ scanJobs' = OnProgress(scanJobs, jobId, 30, "Analyzing company data...", now)
    /\ scanPc' = [scanPc EXCEPT ![jobId] = "fanout"]
    /\ UNCHANGED <<now, response, request>>
    /\ UNCHANGED scanVars

\* runScan, lines 74-155: the fan-out has settled; the results are processed,
\* the score is calculated and the AI calls are made
ScanFanOutSettled(jobId) ==
    /\ scanPc[jobId] = "fanout"
    /\ scanJobs' = OnProgress(OnProgress(scanJobs, jobId, 85, "Calculating score...", now),
                              jobId, 90, "Generating AI analysis...", now)
    /\ scanPc' = [scanPc EXCEPT ![jobId] = "ai"]
    /\ UNCHANGED <<now, response, request>>
    /\ UNCHANGED scanVars

\* runScan, lines 165-182: the AI calls have settled and runScan returns
ScanReturned(jobId) ==
    /\ scanPc[jobId] = "ai"
    /\ scanJobs' = OnProgress(scanJobs, jobId, 100, "Complete", now)
    /\ scanPc' = [scanPc EXCEPT ![jobId] = "returned"]
    /\ UNCHANGED <<now, response, request>>
    /\ UNCHANGED scanVars

\* runScanAsync, lines 103-110: the await on runScan resumes with its result
ScanResolved(jobId) ==
    /\ scanPc[jobId] = "returned"
    /\ scanJobs' =
          (IF jobId \in DOMAIN scanJobs
           THEN [scanJobs EXCEPT ![jobId].status = "completed", ![jobId].progress = 100,
                                 ![jobId].currentStep = "Complete",
                                 ![jobId].result = Some("ScanResult"),
                                 ![jobId].updatedAt = now]
           ELSE scanJobs)
    /\ scanPc' = [scanPc EXCEPT ![jobId] = "done"]
    /\ UNCHANGED <<now, response, request>>
    /\ UNCHANGED scanVars

\* a catch block that puts the job back in the queue and runs the scan again
ScanRejectedRequeue(jobId) ==
    /\ scanPc[jobId] \in {"fanout", "ai"}
    /\ scanJobs' =
          (IF jobId \in DOMAIN scanJobs
           THEN [scanJobs EXCEPT ![jobId].status = "queued", ![jobId].updatedAt = now]
           ELSE scanJobs)
    /\ scanPc' = [scanPc EXCEPT ![jobId] = "website"]
    /\ UNCHANGED <<now, response, request>>
    /\ UNCHANGED scanVars

\* runScanAsync, lines 111-122: runScan has thrown in the code it runs outside
\* a try block (after the fan-out or after the AI calls) and the await
\* resumes in the catch block
ScanRejected(jobId) ==
    /\ scanPc[jobId] \in {"fanout", "ai"}
    /\ scanJobs' =
          (IF jobId \in DOMAIN scanJobs
           THEN [scanJobs EXCEPT ![jobId].status = "failed",
                                 ![jobId].error = Some([code |-> "SCAN_FAILED", message |-> "Unknown error"]),
                                 ![jobId].updatedAt = now]
           ELSE scanJobs)
    /\ scanPc' = [scanPc EXCEPT ![jobId] = "done"]
    /\ UNCHANGED <<now, response, request>>
    /\ UNCHANGED scanVars

NextJobs ==
    \/ Tick
    \/ \E body \in Bodies : PostRejected(body)
    \/ \E body \in Bodies, jobId \in JobIds : PostAccepted(body, jobId)
    \/ \E jobId \in JobIds : ScanWebsiteSettled(jobId)
    \/ \E jobId \in JobIds : ScanFanOutSettled(jobId)
    \/ \E jobId \in JobIds : ScanReturned(jobId)
    \/ \E jobId \in JobIds : ScanResolved(jobId)
    \/ \E jobId \in JobIds : ScanRejected(jobId)

SpecJobs == InitJobs /\ [][NextJobs]_vars

-----------------------------------------------------------------------------
(* Claims about the aggregation phase *)

Scored == result # None
R == result[1]

\* the positions of the raw findings with this id in allSignals
RawIndexes(id) == {k \in 1..Len(allSignals) : allSignals[k].id = id}
LastRawIndex(id) == CHOOSE k \in RawIndexes(id) : \A j \in RawIndexes(id) : j <= k

\* C1: whatever the raw findings are (none, some, unknown ids, duplicate ids),
\* the merged list has one Signal per definition of the registry, in registry
\* order, and so no Signal of an unknown id.
C1_MergeTotal ==
    Scored =>
        /\ Len(R.signals) = Len(SIGNAL_DEFINITIONS)
        /\ \A i \in 1..Len(R.signals) : R.signals[i].id = SIGNAL_DEFINITIONS[i].id
        /\ \A i \in 1..Len(R.signals) : R.signals[i].id # UnknownId
        /\ \A i, j \in 1..Len(R.signals) : R.signals[i].id = R.signals[j].id => i = j

\* a merge has run on findings that hold an unknown id, hold an id twice and
\* leave definitions unreported
C1_Witness ==
    /\ Scored
    /\ RawIndexes(UnknownId) # {}
    /\ \E id \in DefIds \cup {UnknownId} : Cardinality(RawIndexes(id)) >= 2
    /\ \E id \in DefIds : RawIndexes(id) = {}

\* C2: each merged Signal is decided by the last raw finding of its id, or is
\* not found when there is none; points and maxPoints, category and name come
\* from the definition.
C2_LastWriteWins ==
    Scored =>
        \A i \in 1..Len(SIGNAL_DEFINITIONS) :
            LET def == SIGNAL_DEFINITIONS[i]
                sig == R.signals[i]
                found == RawIndexes(def.id) # {} /\ allSignals[LastRawIndex(def.id)].found
            IN  /\ sig.found = found
                /\ sig.points = (IF found THEN def.points ELSE 0)
                /\ sig.maxPoints = def.points
                /\ sig.category = def.category
                /\ sig.name = def.name

\* a merge has run on two findings of one id that disagree on `found`, and on
\* a finding whose category and maxPoints are not the definition's
C2_Witness ==
    /\ Scored
    /\ \E id \in DefIds : \E j, k \in RawIndexes(id) : allSignals[j].found # allSignals[k].found
    /\ \E k \in 1..Len(allSignals) :
          /\ allSignals[k].id \in DefIds
          /\ allSignals[k].category # DefOf(allSignals[k].id).category
          /\ allSignals[k].maxPoints # DefOf(allSignals[k].id).points

\* C3: score = clamp(sum of the category scores + totalPenalty, 0, 100), and
\* so 0 <= score <= 100.
C3_ScoreClamped ==
    Scored =>
        LET raw == SumSeq([k \in 1..Len(R.categories) |-> R.categories[k].score]) + R.totalPenalty
        IN  /\ R.score = (IF raw < 0 THEN 0 ELSE IF raw > 100 THEN 100 ELSE raw)
            /\ 0 <= R.score
            /\ R.score <= 100

\* a score the clamp has raised to 0
C3_Witness ==
    /\ Scored
    /\ SumSeq([k \in 1..Len(R.categories) |-> R.categories[k].score]) + R.totalPenalty < 0
    /\ R.score = 0

\* C4: four penalty records, no_leadership -5, website_only -5, no_social -3,
\* new_domain -2, in that order; totalPenalty is the sum of the points of the
\* applied ones and lies in -15..0.
C4_PenaltyRecords ==
    Scored =>
        /\ [k \in 1..Len(R.penalties) |-> <<R.penalties[k].id, R.penalties[k].points>>]
              = << <<"no_leadership", -5>>, <<"website_only", -5>>, <<"no_social", -3>>, <<"new_domain", -2>> >>
        /\ R.totalPenalty
              = SumSeq([k \in 1..Len(R.penalties) |->
                            IF R.penalties[k].applied THEN R.penalties[k].points ELSE 0])
        /\ -15 <= R.totalPenalty
        /\ R.totalPenalty <= 0

\* some penalties applied and some not
C4_Witness ==
    /\ Scored
    /\ \E k \in 1..Len(R.penalties) : R.penalties[k].applied
    /\ \E k \in 1..Len(R.penalties) : ~R.penalties[k].applied

\* C5: each category's maxScore is the sum of the points of the definitions
\* of that category: identity 25, leadership 20, validation 25, operational
\* 15, 85 together.
C5_CategoryBudget ==
    /\ \A c \in DOMAIN CATEGORY_INFO :
          CATEGORY_INFO[c].maxScore
              = SumSeq(MapSeq(SelectSeq(SIGNAL_DEFINITIONS, LAMBDA def : def.category = c),
                              LAMBDA def : def.points))
    /\ Scored =>
          /\ [k \in 1..Len(R.categories) |-> R.categories[k].maxScore] = <<25, 20, 25, 15>>
          /\ \A k \in 1..Len(R.categories) :
                R.categories[k].maxScore
                    = SumSeq([j \in 1..Len(R.categories[k].signals) |-> R.categories[k].signals[j].maxPoints])
          /\ SumSeq([k \in 1..Len(R.categories) |-> R.categories[k].maxScore]) = 85

\* every category scored at its budget
C5_Witness ==
    /\ Scored
    /\ \A k \in 1..Len(R.categories) : R.categories[k].score = R.categories[k].maxScore

\* the merged signals with signal i found instead of not found, nothing else changed
Flipped(signals, i) ==
    [signals EXCEPT ![i].found = TRUE, ![i].points = signals[i].maxPoints]

CategoryIndex(category) == CHOOSE k \in 1..Len(CategoryOrder) : CategoryOrder[k] = category

\* C6: finding one more signal, all else (every value string too) unchanged,
\* lowers neither the score of that signal's category nor the overall score.
C6_Monotone ==
    Scored =>
        \A i \in 1..Len(R.signals) :
            ~R.signals[i].found =>
                LET signals == Flipped(R.signals, i)
                    categories == calculateCategoryScores(signals)
                    pen == calculatePenalties(signals, categories)
                    score == ComposeScore(CategoryTotal(categories), pen.totalPenalty)
                    k == CategoryIndex(R.signals[i].category)
                IN  /\ categories[k].score >= R.categories[k].score
                    /\ score >= R.score

\* a scored set with a positive score in which a leadership signal, the
\* linkedin_company signal and a domain_age signal carrying "< 1" are not found:
\* the flips that change a penalty
C6_Witness ==
    /\ Scored
    /\ R.score > 0
    /\ \E i \in 1..Len(R.signals) : R.signals[i].id = "linkedin_company" /\ ~R.signals[i].found
    /\ \E i \in 1..Len(R.signals) :
          /\ R.signals[i].id = "domain_age"
          /\ ~R.signals[i].found
          /\ R.signals[i].value = Some("< 1 year (5 months)")

\* the merged signal of an id
Sig(id) == R.signals[CHOOSE i \in 1..Len(R.signals) : R.signals[i].id = id]

\* the penalty record of an id
Pen(id) == R.penalties[CHOOSE k \in 1..Len(R.penalties) : R.penalties[k].id = id]

\* C9: the no_leadership penalty (-5) is applied exactly when the score of
\* the leadership category is below 6.
C9_NoLeadership ==
    Scored =>
        /\ Pen("no_leadership").points = -5
        /\ Pen("no_leadership").applied <=> (R.categories[CategoryIndex("leadership")].score < 6)

\* a leadership score of exactly 6, the penalty not applied
C9_Witness ==
    /\ Scored
    /\ R.categories[CategoryIndex("leadership")].score = 6
    /\ ~Pen("no_leadership").applied

\* C10: website_only (-5) is applied exactly when third_party_mentions and
\* news_coverage are both not found, no_social (-3) exactly when
\* linkedin_company is not found, whatever the other rules decide.
C10_WebsiteOnlyNoSocial ==
    Scored =>
        /\ Pen("website_only").points = -5
        /\ Pen("website_only").applied
              <=> (~Sig("third_party_mentions").found /\ ~Sig("news_coverage").found)
        /\ Pen("no_social").points = -3
        /\ Pen("no_social").applied <=> ~Sig("linkedin_company").found

\* one of the two signals found and website_only not applied, while no_social
\* is applied
C10_Witness ==
    /\ Scored
    /\ Sig("third_party_mentions").found # Sig("news_coverage").found
    /\ ~Pen("website_only").applied
    /\ Pen("no_social").applied

\* C11: the new_domain penalty (-2) is applied exactly when the merged
\* domain_age signal is not found and its value string contains "< 1"; never
\* when domain_age is found, never when it is not found and has no value.
C11_NewDomain ==
    Scored =>
        LET d == Sig("domain_age")
            applied == Pen("new_domain").applied
        IN  /\ Pen("new_domain").points = -2
            /\ applied <=> (~d.found /\ d.value # None /\ Includes(d.value[1], "< 1"))
            /\ d.found => ~applied
            /\ (~d.found /\ d.value = None) => ~applied
            /\ d.value = Some("14 months") => ~applied

\* domain_age not found with a value of less than one year, the penalty applied
C11_Witness ==
    /\ Scored
    /\ ~Sig("domain_age").found
    /\ Sig("domain_age").value = Some("< 1 year (5 months)")
    /\ Pen("new_domain").applied
    /\ R.totalPenalty <= -2

\* the six-level mapping of score / maxScore * 100, highest threshold first
SixLevels(score, maxScore) ==
    IF score * 100 >= 85 * maxScore THEN "Excellent"
    ELSE IF score * 100 >= 70 * maxScore THEN "Good"
    ELSE IF score * 100 >= 50 * maxScore THEN "Moderate"
    ELSE IF score * 100 >= 30 * maxScore THEN "Limited"
    ELSE IF score > 0 THEN "Minimal"
    ELSE "None"

\* C12: each category's coverageLevel is the six-level mapping of its
\* percentage, and it is "None" exactly when the category's score is 0.
C12_CategoryLevels ==
    Scored =>
        \A k \in 1..Len(R.categories) :
            LET c == R.categories[k]
            IN  /\ c.coverageLevel = SixLevels(c.score, c.maxScore)
                /\ c.coverageLevel = "None" <=> c.score = 0

\* a category with a positive score below 30 percent next to one with score 0
C12_Witness ==
    /\ Scored
    /\ \E k \in 1..Len(R.categories) :
          /\ R.categories[k].score > 0
          /\ R.categories[k].score * 100 < 30 * R.categories[k].maxScore
          /\ R.categories[k].coverageLevel = "Minimal"
    /\ \E k \in 1..Len(R.categories) :
          R.categories[k].score = 0 /\ R.categories[k].coverageLevel = "None"

\* C13: the headline coverageLevel is the five-level mapping of the score; it
\* is never "None", and a score of 0 is "Minimal".
C13_HeadlineLevel ==
    Scored =>
        /\ R.coverageLevel
              = (IF R.score >= 85 THEN "Excellent" ELSE IF R.score >= 70 THEN "Good"
                 ELSE IF R.score >= 50 THEN "Moderate" ELSE IF R.score >= 30 THEN "Limited"
                 ELSE "Minimal")
        /\ R.coverageLevel # "None"
        /\ R.score = 0 => R.coverageLevel = "Minimal"

\* a score of 0 with every category at "None", reported as "Minimal"
C13_Witness ==
    /\ Scored
    /\ R.score = 0
    /\ \A k \in 1..Len(R.categories) : R.categories[k].coverageLevel = "None"
    /\ R.coverageLevel = "Minimal"

\* C14: when every signal of the registry is found, the category scores are
\* 25/20/25/15, no penalty is applied, totalPenalty is 0 and the score is 85.
C14_AllFound ==
    (Scored /\ \A i \in 1..Len(R.signals) : R.signals[i].found) =>
        /\ [k \in 1..Len(R.categories) |-> R.categories[k].score] = <<25, 20, 25, 15>>
        /\ \A k \in 1..Len(R.penalties) : ~R.penalties[k].applied
        /\ R.totalPenalty = 0
        /\ R.score = 85

\* a scored set in which all signals of the registry are found
C14_Witness ==
    /\ Scored
    /\ Len(R.signals) = Len(SIGNAL_DEFINITIONS)
    /\ \A i \in 1..Len(R.signals) : R.signals[i].found
    /\ R.score = 85

\* the ids of the penalties that are applied
AppliedPenalties == {R.penalties[k].id : k \in {j \in 1..Len(R.penalties) : R.penalties[j].applied}}

\* C15: when no signal is found and the domain_age value does not contain
\* "< 1" (the empty list of raw findings included), all category scores are 0,
\* exactly no_leadership, website_only and no_social are applied, totalPenalty
\* is -13 and the score is 0.
C15_NoneFound ==
    (/\ Scored
     /\ \A i \in 1..Len(R.signals) : ~R.signals[i].found
     /\ Sig("domain_age").value \in {None, Some("14 months")}) =>
        /\ [k \in 1..Len(R.categories) |-> R.categories[k].score] = <<0, 0, 0, 0>>
        /\ AppliedPenalties = {"no_leadership", "website_only", "no_social"}
        /\ R.totalPenalty = -13
        /\ R.score = 0

\* the empty list of raw findings has been scored
C15_Witness ==
    /\ Scored
    /\ allSignals = <<>>
    /\ \A i \in 1..Len(R.signals) : ~R.signals[i].found
    /\ R.totalPenalty = -13

\* sum of the category scores + totalPenalty, before the clamp
RawScore == SumSeq([k \in 1..Len(R.categories) |-> R.categories[k].score]) + R.totalPenalty

\* C16 as stated: the raw score lies between 70 and 85.
C16_FloorSeventy == Scored => (70 <= RawScore /\ RawScore <= 85)

\* C16, amended: the raw score (sum of the category scores + totalPenalty) has
\* a ceiling of 85 and a floor of -15.
C16_RawScoreRange == Scored => (-15 <= RawScore /\ RawScore <= 85)

\* the floor is met: nothing found, all four penalties applied
C16_Witness ==
    /\ Scored
    /\ RawScore = -15
    /\ AppliedPenalties = {"no_leadership", "website_only", "no_social", "new_domain"}

\* C26: whenever no_leadership is applied, no_social is applied too, and so
\* totalPenalty is never -12, the one total that needs no_leadership (with
\* website_only and new_domain) without no_social.
C26_LeadershipImpliesSocial ==
    Scored =>
        /\ Pen("no_leadership").applied => Pen("no_social").applied
        /\ Sig("linkedin_company").found => ~Pen("no_leadership").applied
        /\ R.totalPenalty # -12

\* no_leadership applied although a leadership signal is found (team_page,
\* 4 points), no_social applied with it
C26_Witness ==
    /\ Scored
    /\ Pen("no_leadership").applied
    /\ Pen("no_social").applied
    /\ Sig("team_page").found
    /\ R.categories[2].score = 4

\* C27: the category list has four entries, identity, leadership, validation,
\* operational in this order; each merged Signal is in the signals list of
\* exactly one category; each category's score is the sum of the points of
\* its found signals and lies between 0 and its maxScore.
C27_CategoryStructure ==
    Scored =>
        /\ [k \in 1..Len(R.categories) |-> R.categories[k].category]
              = <<"identity", "leadership", "validation", "operational">>
        /\ \A i \in 1..Len(R.signals) :
              Cardinality({<<k, j>> \in (1..Len(R.categories)) \X (1..Len(R.signals)) :
                              /\ j <= Len(R.categories[k].signals)
                              /\ R.categories[k].signals[j] = R.signals[i]}) = 1
        /\ \A k \in 1..Len(R.categories) :
              LET c == R.categories[k]
              IN  /\ c.score = SumSeq([j \in 1..Len(c.signals) |->
                                          IF c.signals[j].found THEN c.signals[j].maxPoints ELSE 0])
                  /\ 0 <= c.score
                  /\ c.score <= c.maxScore
                  /\ \A j \in 1..Len(c.signals) : c.signals[j].category = c.category

\* a scored set with two categories partly found and one at 0
C27_Witness ==
    /\ Scored
    /\ \E k, l \in 1..Len(R.categories) :
          /\ k # l
          /\ 0 < R.categories[k].score /\ R.categories[k].score < R.categories[k].maxScore
          /\ 0 < R.categories[l].score /\ R.categories[l].score < R.categories[l].maxScore
    /\ \E k \in 1..Len(R.categories) : R.categories[k].score = 0

-----------------------------------------------------------------------------
(* Claims about runScan and getEffortEstimate *)

ScoringFields ==
    {"signals", "categories", "penalties", "totalPenalty", "score", "coverageLevel", "effortEstimate"}

ScoringOf(r) == [f \in ScoringFields |-> r[f]]

\* the findings of the collectors that fulfilled, website first, then in the
\* order of the allSettled array
FulfilledSignals(c) == IF outcome[c].status = "fulfilled" THEN outcome[c].signals ELSE <<>>

OutcomeFindings ==
    FulfilledSignals("website") \o FulfilledSignals("domain") \o FulfilledSignals("search")
    \o FulfilledSignals("linkedin") \o FulfilledSignals("careers") \o FulfilledSignals("techstack")

\* C7: the scoring fields of the preliminary and of the returned ScanResult
\* are a function of the collectors' outcomes alone, whatever the order in
\* which the fan-out collectors settled.
C7_Deterministic ==
    /\ result # None => ScoringOf(result[1]) = ScoringOf(Aggregation(OutcomeFindings))
    /\ returned # None => ScoringOf(returned[1]) = ScoringOf(Aggregation(OutcomeFindings))

\* a scan has returned with one fan-out collector rejected and others
\* reporting found signals
C7_Witness ==
    /\ returned # None
    /\ \E c \in FanOutSet : outcome[c].status = "rejected"
    /\ outcome.search.status = "fulfilled"
    /\ returned[1].score > 0
    /\ \E i \in 1..Len(returned[1].signals) :
          returned[1].signals[i].id = "news_coverage" /\ returned[1].signals[i].found

\* C8: the effort level is decided by the score alone: Low from 70, Medium
\* from 50 to 69, High up to 49, whatever signals are missing.
C8_EffortLevel ==
    ret # None =>
        /\ args.score >= 70 => ret[1].level = "Low"
        /\ (50 <= args.score /\ args.score <= 69) => ret[1].level = "Medium"
        /\ args.score <= 49 => ret[1].level = "High"

\* a call with score 70 and missing signals that give specific reasons
C8_Witness ==
    /\ ret # None
    /\ args.score = 70
    /\ Len(args.missingSignals) > 3
    /\ ret[1].level = "Low"

\* C17: the reasons are, in this order, those of the four conditions that
\* hold (N missing signals of 5 points or more with N >= 1, more than 2
\* missing leadership signals, more than 3 missing validation signals, more
\* than 2 missing identity signals), each decided on its own; when none
\* holds, the one generic reason of the level; the list is never empty.
C17_EffortReasons ==
    ret # None =>
        LET m == args.missingSignals
            critical == Cardinality({i \in 1..Len(m) : m[i].maxPoints >= 5})
            leadership == Cardinality({i \in 1..Len(m) : m[i].category = "leadership"})
            validation == Cardinality({i \in 1..Len(m) : m[i].category = "validation"})
            identity == Cardinality({i \in 1..Len(m) : m[i].category = "identity"})
            specific ==
                (IF critical >= 1
                   THEN <<NatToStr(critical) \o " critical signal(s) require manual verification">>
                   ELSE <<>>)
                \o (IF leadership >= 3 THEN <<"Leadership information requires extensive research">> ELSE <<>>)
                \o (IF validation >= 4 THEN <<"Limited external validation will require primary research">> ELSE <<>>)
                \o (IF identity >= 3 THEN <<"Basic company identity needs verification">> ELSE <<>>)
            generic ==
                IF args.score >= 70 THEN "Standard validation of existing signals"
                ELSE IF args.score >= 50 THEN "Moderate research needed for gaps"
                ELSE "Extensive primary research required"
        IN  /\ Len(ret[1].reasons) >= 1
            /\ specific # <<>> => ret[1].reasons = specific
            /\ specific = <<>> => ret[1].reasons = <<generic>>

\* a call whose reasons combine the critical count with the identity reason,
\* the leadership and validation conditions not holding
C17_Witness ==
    /\ ret # None
    /\ Len(ret[1].reasons) = 2
    /\ ret[1].reasons[1] = "2 critical signal(s) require manual verification"
    /\ ret[1].reasons[2] = "Basic company identity needs verification"

-----------------------------------------------------------------------------
(* Claims about the job store of route.ts *)

\* the status moves the state machine allows
StatusMoves ==
    {<<"queued", "processing">>, <<"processing", "completed">>, <<"processing", "failed">>}

\* C18: in every step a job's status stays as it is or moves along
\* queued -> processing -> completed | failed; a completed or failed job
\* keeps its status, and its scan does not run again.
C18_StatusMachine ==
    [][\A id \in JobIds :
          (id \in DOMAIN scanJobs /\ id \in DOMAIN scanJobs') =>
              /\ \/ scanJobs'[id].status = scanJobs[id].status
                 \/ <<scanJobs[id].status, scanJobs'[id].status>> \in StatusMoves
              /\ scanJobs[id].status \in {"completed", "failed"} =>
                    /\ scanJobs'[id].status = scanJobs[id].status
                    /\ scanPc[id] = "done"
                    /\ scanPc'[id] = "done"]_vars

\* one job has failed, another one has completed, and the clock has moved on
\* since
C18_Witness ==
    /\ \E a, b \in DOMAIN scanJobs :
          /\ scanJobs[a].status = "failed"
          /\ scanJobs[a].updatedAt < now
          /\ scanJobs[b].status = "completed"
    /\ \A id \in DOMAIN scanJobs : scanPc[id] = "done"

-----------------------------------------------------------------------------
(* Claims about the sequencing of runScan *)

\* the fan-out collectors that have been called
Started == DOMAIN seenName

\* C19: no fan-out collector is called before the website collector has
\* settled; the company name is written only by the website step, before the
\* fan-out, so every fan-out collector and the ScanResult hold the same name.
C19_CompanyName ==
    /\ [](/\ pc = "website" => Started = {}
          /\ pc # "website" => Started = FanOutSet
          /\ \A c \in Started : seenName[c] = companyName
          /\ result # None => result[1].companyName = companyName
          /\ returned # None => returned[1].companyName = companyName)
    /\ [][companyName' # companyName => (pc = "website" /\ Started = {} /\ pc' = "fanout")]_vars

\* a scan has returned under the name the website collector supplied
C19_Witness ==
    /\ returned # None
    /\ companyName = "Acme Corp"
    /\ companyName # InitialCompanyName
    /\ \A c \in FanOutSet : seenName[c] = "Acme Corp"
    /\ returned[1].companyName = "Acme Corp"

\* C20: the aggregation phase starts only when every fan-out collector has
\* settled, and it runs on the findings of all the collectors that fulfilled.
C20_AggregationAfterFanOut ==
    /\ pc \in {"aggregate", "interpret", "done"} => settled = FanOutSet
    /\ result # None => settled = FanOutSet
    /\ pc \in {"aggregate", "interpret", "done"} => allSignals = OutcomeFindings
    /\ (pc = "fanout" /\ settled # FanOutSet) => result = None

\* the aggregation phase is about to run after a fan-out in which the last
\* collector of the array fulfilled and another one rejected
C20_Witness ==
    /\ pc = "aggregate"
    /\ settled = FanOutSet
    /\ outcome.financials.status = "fulfilled"
    /\ outcome.techstack.status = "fulfilled"
    /\ outcome.domain.status = "rejected"
    /\ Len(allSignals) > 0

-----------------------------------------------------------------------------
(* Claims about failures in runScan *)

\* the collectors in the order runScan records their failures
CollectorOrder == <<"website">> \o FanOut

\* the ids each collector reports
IdsOf(c) ==
    IF c = "website" THEN WebsiteIds
    ELSE IF c = "domain" THEN {"domain_age", "ssl_valid"}
    ELSE IF c = "search" THEN {"third_party_mentions", "news_coverage", "search_presence"}
    ELSE IF c = "linkedin" THEN {"linkedin_company", "founders_identifiable", "employee_count"}
    ELSE IF c = "careers" THEN {"active_jobs"}
    ELSE IF c = "techstack" THEN {"tech_stack"}
    ELSE {}

\* C21: whatever collectors reject, every fan-out collector is called, the
\* raw findings are those of all the collectors that fulfilled, each rejected collector is recorded once in
\* errors, its ids are merged as not found, the findings of the others are
\* merged as reported, and runScan returns a ScanResult.
C21_FailuresIsolated ==
    /\ pc # "website" => Started = FanOutSet
    /\ pc \in {"aggregate", "interpret", "done"} =>
          /\ errors = SelectSeq(CollectorOrder, LAMBDA c : outcome[c].status = "rejected")
          /\ allSignals = OutcomeFindings
    /\ result # None =>
          \A c \in DOMAIN outcome :
              \A i \in 1..Len(result[1].signals) :
                  LET sig == result[1].signals[i]
                  IN  sig.id \in IdsOf(c) =>
                          IF outcome[c].status = "rejected" THEN ~sig.found /\ sig.points = 0
                          ELSE \E k \in 1..Len(outcome[c].signals) :
                                  /\ outcome[c].signals[k].id = sig.id
                                  /\ outcome[c].signals[k].found = sig.found
    /\ pc = "done" =>
          /\ returned # None
          /\ Len(returned[1].signals) = Len(SIGNAL_DEFINITIONS)
          /\ returned[1].score \in 0..100

\* a scan has returned although the website collector and two fan-out
\* collectors rejected, with the findings of the search collector merged
C21_Witness ==
    /\ returned # None
    /\ outcome.website.status = "rejected"
    /\ outcome.domain.status = "rejected"
    /\ outcome.linkedin.status = "rejected"
    /\ errors = <<"website", "domain", "linkedin">>
    /\ \E i \in 1..Len(returned[1].signals) :
          returned[1].signals[i].id = "search_presence" /\ returned[1].signals[i].found

\* the fields of a ScanResult the AI step does not set
PreliminaryFields == ScoringFields \cup {"companyName", "financialData"}

\* C22: runScan returns whatever the AI calls settle with, and the returned
\* ScanResult holds the preliminary result's score, coverageLevel, categories,
\* penalties, totalPenalty, signals and effortEstimate (and its companyName
\* and financialData) unchanged.
C22_EnrichmentAdditive ==
    /\ pc = "done" => returned # None
    /\ returned # None =>
          /\ result # None
          /\ \A f \in PreliminaryFields : returned[1][f] = result[1][f]
          /\ ScoringOf(returned[1]) = ScoringOf(result[1])

\* a scan has returned without an interpretation (the call rejected or
\* yielded nothing), with a positive score
C22_Witness ==
    /\ returned # None
    /\ returned[1].aiInterpretation = None
    /\ returned[1].score > 0
    /\ returned[1].score = result[1].score

\* C23: every scan eventually returns, also when a fan-out collector never
\* settles.
C23_EventuallyReturns == <>(pc = "done" /\ returned # None)

\* the ids of the findings a collector settles with
ReportedIds(c) == {outcome[c].signals[k].id : k \in 1..Len(outcome[c].signals)}

\* the collectors whose findings runScan pushes
Reporting == {"website", "domain", "search", "linkedin", "careers", "techstack"}

\* C24: no signal id is reported by two collectors or twice by one, every
\* reported id is an id of the registry, and when the website, domain,
\* search, LinkedIn, careers and tech-stack collectors all fulfil (the
\* unreachable-site branch of the website collector included) every id of
\* the registry is reported exactly once.
C24_OneCollectorPerId ==
    /\ \A c, d \in DOMAIN outcome : c # d => ReportedIds(c) \cap ReportedIds(d) = {}
    /\ \A c \in DOMAIN outcome : ReportedIds(c) \subseteq DefIds
    /\ pc \in {"aggregate", "interpret", "done"} =>
          /\ \A id \in DefIds : Cardinality(RawIndexes(id)) <= 1
          /\ (\A c \in Reporting : outcome[c].status = "fulfilled") =>
                /\ \A id \in DefIds : Cardinality(RawIndexes(id)) = 1
                /\ Len(allSignals) = Len(SIGNAL_DEFINITIONS)

\* the aggregation is about to run on the findings of six fulfilled
\* collectors, the website collector having found the site unreachable
C24_Witness ==
    /\ pc = "aggregate"
    /\ \A c \in Reporting : outcome[c].status = "fulfilled"
    /\ outcome.website.signals = WebsiteUnreachable
    /\ Len(allSignals) = Len(SIGNAL_DEFINITIONS)
    /\ \A id \in DefIds : Cardinality(RawIndexes(id)) = 1

-----------------------------------------------------------------------------
(* Claims about POST and the job store *)

\* the request bodies whose url is missing, empty, or not a URL
MissingOrInvalid ==
    { Some([url |-> None]), Some([url |-> Some("")]), Some([url |-> Some(" ")]),
      Some([url |-> Some("acme corp")]) }

-----------------------------------------------------------------------------
(* Claims about what runScan can return *)

\* C28: employee_count is never found through runScan, so the leadership
\* score is at most 16, the score at most 81, and the headline coverageLevel
\* is never "Excellent".
C28_NeverExcellent ==
    result # None =>
        /\ \A i \in 1..Len(result[1].signals) :
              result[1].signals[i].id = "employee_count" => ~result[1].signals[i].found
        /\ result[1].categories[2].category = "leadership"
        /\ result[1].categories[2].score <= 16
        /\ result[1].score <= 81
        /\ result[1].score # 85
        /\ result[1].coverageLevel # "Excellent"

\* a scan has returned with everything found that the collectors can find:
\* 81 points, "Good"
C28_Witness ==
    /\ returned # None
    /\ returned[1].categories[2].score = 16
    /\ returned[1].totalPenalty = 0
    /\ returned[1].score = 81
    /\ returned[1].coverageLevel = "Good"

\* the raw findings runScan collects when the collectors settle with o
FindingsUnder(o) ==
    LET fulfilled(c) == IF o[c].status = "fulfilled" THEN o[c].signals ELSE <<>>
    IN  fulfilled("website") \o fulfilled("domain") \o fulfilled("search")
        \o fulfilled("linkedin") \o fulfilled("careers") \o fulfilled("techstack")

\* C29: the scoring fields of a scan are those of the scan with any other
\* outcome of the financial collector (data, unavailable, rejected) and the
\* same outcomes of the others; the financial outcome shows in financialData
\* and financialAnalysis only.
C29_FinancialsDoNotScore ==
    /\ \A f \in FinancialOutcomes :
          LET o == [outcome EXCEPT !.financials = f]
          IN  /\ result # None => ScoringOf(result[1]) = ScoringOf(Aggregation(FindingsUnder(o)))
              /\ returned # None => ScoringOf(returned[1]) = ScoringOf(Aggregation(FindingsUnder(o)))
    /\ result # None =>
          result[1].financialData
              = (IF outcome.financials.status = "fulfilled" /\ outcome.financials.financialData[1].available
                 THEN outcome.financials.financialData ELSE None)
    /\ (returned # None /\ returned[1].financialAnalysis # None) =>
          /\ outcome.financials.status = "fulfilled"
          /\ outcome.financials.financialData[1].available

\* a scan has returned with financial data and a financial analysis
C29_Witness ==
    /\ returned # None
    /\ returned[1].financialData # None
    /\ returned[1].financialAnalysis # None
    /\ returned[1].score > 0
    /\ \E c \in Reporting : outcome[c].status = "rejected"

-----------------------------------------------------------------------------
(* Claims about the entries of the job store *)

\* C30: for every job in the store, under every interleaving of scans: it is
\* 'completed' exactly when it holds a result (progress is then 100 and no
\* error is set) and 'failed' exactly when it holds an error (and then no
\* result); its progress never decreases; only a step of its own scan changes
\* it; and a job that cleanup has removed is not stored again.
C30_JobEntries ==
    /\ [](\A id \in DOMAIN scanJobs :
             LET job == scanJobs[id]
             IN  /\ job.status = "completed" <=> job.result # None
                 /\ job.status = "completed" => (job.progress = 100 /\ job.error = None)
                 /\ job.status = "failed" <=> job.error # None
                 /\ job.status = "failed" => job.result = None
                 /\ job.progress \in 0..100)
    /\ [][\A id \in JobIds :
             /\ (id \in DOMAIN scanJobs /\ id \in DOMAIN scanJobs') =>
                   /\ scanJobs'[id].progress >= scanJobs[id].progress
                   /\ scanJobs'[id] # scanJobs[id] => scanPc'[id] # scanPc[id]
             /\ (id \notin DOMAIN scanJobs /\ scanPc[id] # "unused") =>
                   id \notin DOMAIN scanJobs']_vars

\* a job was removed by cleanup while its scan was running; the scan has
\* ended since, and another scan has completed with progress 100
C30_Witness ==
    /\ \E id \in JobIds : scanPc[id] = "done" /\ id \notin DOMAIN scanJobs
    /\ \E id \in DOMAIN scanJobs :
          /\ scanJobs[id].status = "completed"
          /\ scanJobs[id].progress = 100
          /\ scanJobs[id].result # None

====
